---------------------------- MODULE Spec2Model ----------------------------
(***************************************************************************)
(* CAN bus worst-case response time analysis (Hw1/can_wcrt_analysis.py,    *)
(* Hw2/main.py) and the simulated-annealing priority search (Hw2/main.py). *)
(*                                                                         *)
(* Times (trans_time, tau, waiting times, costs) are integral multiples of *)
(* one time unit; the unit is far larger than the 1e-9 tolerance of Hw2's  *)
(* convergence test.  Python list index k is index k+1 here.               *)
(***************************************************************************)
EXTENDS Integers, Sequences, FiniteSets

VARIABLES
    messages,     \* CANController.messages / CANBus.messages
    tau,          \* CANController.tau / CANBus.tau
    pc,           \* position of the program
    pending,      \* load_data: number of descriptor lines still to read
    penalty,      \* get_cost: the penalty argument
    i,            \* compute_total_wcrt: loop index (message under analysis)
    block,        \* get_waiting_time: block
    wt,           \* get_waiting_time: wt
    total,        \* compute_total_wcrt: total
    non_sched,    \* compute_total_wcrt: non_sched
    log,          \* per compute_single_wcrt call: the return get_waiting_time
                  \* took, the value it returned, the value returned to the caller
    result,       \* value returned by get_cost / simulated_annealing
    T_start,      \* simulated_annealing: T_start
    T,            \* simulated_annealing: T
    T_end,        \* simulated_annealing: T_end
    initial_seq,  \* priorities of the messages when simulated_annealing is called
    current_seq,  \* simulated_annealing: current_seq
    best_seq,     \* simulated_annealing: best_seq
    candidate,    \* simulated_annealing: candidate of the last iteration
    prob,         \* simulated_annealing: prob of the last iteration (numerator)
    iterations    \* number of executions of the annealing loop body

vars == <<messages, tau, pc, pending, penalty, i, block, wt, total, non_sched,
          log, result, T_start, T, T_end, initial_seq, current_seq,
          best_seq, candidate, prob, iterations>>

saVars == <<T_start, T, T_end, initial_seq, current_seq, best_seq, candidate, prob,
            iterations>>

costVars == <<penalty, i, block, wt, total, non_sched, log>>

---------------------------------------------------------------------------
(* Bounds of the model *)

MaxMsgs == 3

\* the values the input files of the model draw from
Periods == {5, 20}
TransTimes == {1, 2}
Taus == {0, 1}

Penalties == {0, 150}

---------------------------------------------------------------------------
(* Message *)

Message(data) ==
    [priority |-> data[1], trans_time |-> data[2], period |-> data[3]]

Abs(x) == IF x < 0 THEN -x ELSE x

floor(a, b) == a \div b

\* math.ceil(a / b) for b > 0
ceil(a, b) == -((-a) \div b)

RECURSIVE SumOver(_, _)
SumOver(f, S) ==
    IF S = {} THEN 0
    ELSE LET x == CHOOSE y \in S : TRUE IN f[x] + SumOver(f, S \ {x})

Max(S) == CHOOSE x \in S : \A y \in S : y <= x

---------------------------------------------------------------------------
(* CANController / CANBus: the analyzer *)

get_longest_blocking_strict(msgs, idx) ==
    LET S == {msgs[k].trans_time : k \in {k \in DOMAIN msgs :
                                     msgs[k].priority > msgs[idx].priority}}
    IN IF S = {} THEN 0 ELSE Max(S)

get_longest_blocking(msgs, idx) ==
    LET S == {msgs[k].trans_time : k \in {k \in DOMAIN msgs :
                                     msgs[k].priority >= msgs[idx].priority}}
    IN IF S = {} THEN 0 ELSE Max(S)

\* the messages whose terms the for loop adds to rhs
Interferers(msgs, idx) ==
    {k \in DOMAIN msgs : msgs[k].priority < msgs[idx].priority}

RhsFromZero(msgs, t, idx, blk, w) ==
    SumOver([k \in DOMAIN msgs |->
                msgs[k].trans_time * ceil(w + t, msgs[k].period)],
            Interferers(msgs, idx))

\* rhs / interference after the for loop of one iteration of the while loop
Rhs(msgs, t, idx, blk, w) ==
    blk + SumOver([k \in DOMAIN msgs |->
                      msgs[k].trans_time * ceil(w + t, msgs[k].period)],
                  Interferers(msgs, idx))

\* (wt + tau) / m.period raises ZeroDivisionError for a term of period 0
DividesByZero(msgs, idx) ==
    \E k \in Interferers(msgs, idx) : msgs[k].period = 0

NotSchedulable(msgs, idx, rhs) ==
    rhs + msgs[idx].trans_time > msgs[idx].period

\* abs(wt - rhs) < 1e-9 (Hw2), waiting_time == interference (Hw1): the same
\* on multiples of the time unit
Converged(w, rhs) == Abs(w - rhs) < 1

RECURSIVE WaitLoop(_, _, _, _, _)
WaitLoop(msgs, t, idx, blk, w) ==
    LET rhs == Rhs(msgs, t, idx, blk, w)
    IN IF NotSchedulable(msgs, idx, rhs) THEN 0
       ELSE IF Converged(w, rhs) THEN w
       ELSE WaitLoop(msgs, t, idx, blk, rhs)

get_waiting_time(msgs, t, idx) ==
    WaitLoop(msgs, t, idx, get_longest_blocking(msgs, idx),
             get_longest_blocking(msgs, idx))

\* compute_single_wcrt after get_waiting_time has returned w
SingleWcrtNoSentinel(msgs, idx, w) == w + msgs[idx].trans_time

SingleWcrt(msgs, idx, w) ==
    IF w = 0 THEN -1 ELSE w + msgs[idx].trans_time

compute_single_wcrt(msgs, t, idx) ==
    SingleWcrt(msgs, idx, get_waiting_time(msgs, t, idx))

update_priorities(msgs, seq) ==
    [k \in DOMAIN msgs |->
        IF k <= Len(seq) THEN [msgs[k] EXCEPT !.priority = seq[k]]
        ELSE msgs[k]]

\* one pass of the for loop of compute_total_wcrt, given rt
AccumulateAll(acc, rt) ==
    [total |-> acc.total + rt, non_sched |-> acc.non_sched]

Accumulate(acc, rt) ==
    IF rt < 0 THEN [total |-> acc.total, non_sched |-> acc.non_sched + 1]
    ELSE [total |-> acc.total + rt, non_sched |-> acc.non_sched]

RECURSIVE TotalLoop(_, _, _, _)
TotalLoop(msgs, t, k, acc) ==
    IF k > Len(msgs) THEN acc
    ELSE TotalLoop(msgs, t, k + 1,
                   Accumulate(acc, compute_single_wcrt(msgs, t, k)))

compute_total_wcrt(msgs, t) ==
    TotalLoop(msgs, t, 1, [total |-> 0, non_sched |-> 0])

\* get_cost(seq, penalty) with a sequence given: the returned pair; the
\* messages are left as update_priorities(msgs, seq)
get_cost(msgs, t, seq, pen) ==
    LET r == compute_total_wcrt(update_priorities(msgs, seq), t)
    IN <<r.total + r.non_sched * pen, r.non_sched = 0>>

---------------------------------------------------------------------------
(* Message sets a well-formed input file loads *)

Perms(n) == {p \in [1..n -> 1..n] : \A a, b \in 1..n : p[a] = p[b] => a = b}

MessageSets(n) ==
    {[k \in 1..n |-> Message(<<p[k], d[k][1], d[k][2]>>)] :
        p \in Perms(n), d \in [1..n -> TransTimes \X Periods]}

ValidMessageSets == UNION {MessageSets(n) : n \in 1..MaxMsgs}

PrioritiesOf(msgs) == [k \in DOMAIN msgs |-> msgs[k].priority]

\* the rearrangements of a sequence
Rearrangements(seq) ==
    {[k \in DOMAIN seq |-> seq[p[k]]] : p \in Perms(Len(seq))}

---------------------------------------------------------------------------
(* get_cost, step by step: compute_total_wcrt's for loop around             *)
(* compute_single_wcrt and the while loop of get_waiting_time.  Hw1's main  *)
(* runs the same loop over compute_worst_case_response_time.                *)

NoSA ==
    /\ T_start = 0 /\ T = 0 /\ T_end = 0 /\ initial_seq = <<>> /\ current_seq = <<>>
    /\ best_seq = <<>> /\ candidate = <<>> /\ prob = 0 /\ iterations = 0

NoCost ==
    /\ penalty = 0 /\ i = 0 /\ block = 0 /\ wt = 0 /\ total = 0
    /\ non_sched = 0 /\ log = <<>>

InitLoaded ==
    /\ messages \in ValidMessageSets
    /\ tau \in Taus
    /\ pc = "loaded"
    /\ pending = 0
    /\ result = <<>>
    /\ NoCost
    /\ NoSA

\* get_cost(seq=None, penalty=pen): no priority update
GetCostCall(pen) ==
    /\ pc = "loaded"
    /\ penalty' = pen
    /\ i' = 1 /\ total' = 0 /\ non_sched' = 0
    /\ log' = <<>>
    /\ pc' = "for"
    /\ UNCHANGED <<messages, tau, pending, block, wt, result>>
    /\ UNCHANGED saVars

\* get_cost(seq, penalty=pen): update_priorities first
GetCostCallSeq(seq, pen) ==
    /\ pc = "loaded"
    /\ messages' = update_priorities(messages, seq)
    /\ penalty' = pen
    /\ i' = 1 /\ total' = 0 /\ non_sched' = 0
    /\ log' = <<>>
    /\ pc' = "for"
    /\ UNCHANGED <<tau, pending, block, wt, result>>
    /\ UNCHANGED saVars

\* compute_single_wcrt(i) -> get_waiting_time(i): up to the while loop
WaitEnter ==
    /\ pc = "for"
    /\ i <= Len(messages)
    /\ block' = get_longest_blocking(messages, i)
    /\ wt' = get_longest_blocking(messages, i)
    /\ pc' = "while"
    /\ UNCHANGED <<messages, tau, pending, penalty, i, total, non_sched,
                   log, result>>
    /\ UNCHANGED saVars

\* get_waiting_time returned w to compute_single_wcrt, whose value
\* compute_total_wcrt adds up
Return(w, exit) ==
    LET rt  == SingleWcrt(messages, i, w)
        acc == Accumulate([total |-> total, non_sched |-> non_sched], rt)
    IN /\ log' = Append(log, [exit |-> exit, waited |-> w, rt |-> rt])
       /\ total' = acc.total
       /\ non_sched' = acc.non_sched
       /\ i' = i + 1
       /\ pc' = "for"

\* one iteration of the while loop ending in "return 0"
WaitNotSchedulable ==
    /\ pc = "while"
    /\ ~DividesByZero(messages, i)
    /\ NotSchedulable(messages, i, Rhs(messages, tau, i, block, wt))
    /\ Return(0, "not_schedulable")
    /\ UNCHANGED <<messages, tau, pending, penalty, block, wt, result>>
    /\ UNCHANGED saVars

\* one iteration of the while loop ending in "return wt"
WaitConverged ==
    /\ pc = "while"
    /\ ~DividesByZero(messages, i)
    /\ ~NotSchedulable(messages, i, Rhs(messages, tau, i, block, wt))
    /\ Converged(wt, Rhs(messages, tau, i, block, wt))
    /\ Return(wt, "converged")
    /\ UNCHANGED <<messages, tau, pending, penalty, block, wt, result>>
    /\ UNCHANGED saVars

\* one iteration of the while loop ending in "wt = rhs"
WaitIterate ==
    /\ pc = "while"
    /\ ~DividesByZero(messages, i)
    /\ ~NotSchedulable(messages, i, Rhs(messages, tau, i, block, wt))
    /\ ~Converged(wt, Rhs(messages, tau, i, block, wt))
    /\ wt' = Rhs(messages, tau, i, block, wt)
    /\ UNCHANGED <<messages, tau, pc, pending, penalty, i, block, total,
                   non_sched, log, result>>
    /\ UNCHANGED saVars

\* the for loop of the while loop raises ZeroDivisionError
WaitZeroDivision ==
    /\ pc = "while"
    /\ DividesByZero(messages, i)
    /\ pc' = "ZeroDivisionError"
    /\ UNCHANGED <<messages, tau, pending, result>>
    /\ UNCHANGED costVars
    /\ UNCHANGED saVars

\* the for loop is over: get_cost returns (cost, non_sched == 0)
GetCostReturn ==
    /\ pc = "for"
    /\ i > Len(messages)
    /\ result' = <<total + non_sched * penalty, non_sched = 0>>
    /\ pc' = "done"
    /\ UNCHANGED <<messages, tau, pending>>
    /\ UNCHANGED costVars
    /\ UNCHANGED saVars

NextAnalyzer ==
    \/ \E pen \in Penalties : GetCostCall(pen)
    \/ /\ pc = "loaded"
       /\ \E pen \in Penalties :
             \E seq \in Rearrangements(PrioritiesOf(messages)) :
                GetCostCallSeq(seq, pen)
    \/ WaitEnter
    \/ WaitNotSchedulable
    \/ WaitConverged
    \/ WaitIterate
    \/ GetCostReturn

SpecAnalyzer == InitLoaded /\ [][NextAnalyzer]_vars

---------------------------------------------------------------------------
(* Claims about the analyzer *)

ScenarioB == <<Message(<<1, 2, 5>>), Message(<<2, 2, 20>>)>>

ScenarioBAnalysed == pc = "done" /\ messages = ScenarioB /\ tau = 0

\* C2 as stated: on {(1, 2, 5), (2, 2, 20)} with tau = 0 both messages are
\* schedulable, with worst-case response times 2 and 4.
C2_ScenarioB_AsStated ==
    ScenarioBAnalysed =>
        /\ result[2]
        /\ [k \in DOMAIN log |-> log[k].rt] = <<2, 4>>

\* C2 as amended: on {(1, 2, 5), (2, 2, 20)} with tau = 0 both messages are
\* schedulable, with worst-case response times 4 and 6 (the blocking term
\* of each message includes its own transmission time).
C2_ScenarioB ==
    ScenarioBAnalysed =>
        /\ result[2]
        /\ [k \in DOMAIN log |-> log[k].exit] = <<"converged", "converged">>
        /\ [k \in DOMAIN log |-> log[k].rt] = <<4, 6>>

C2_Witness == ScenarioBAnalysed /\ Len(log) = 2

\* C5: the fixed-point loop terminates: every iteration either returns (by
\* the not-schedulable return or by the converged return) or replaces the
\* waiting-time estimate by a strictly larger one that, with the message's
\* own transmission time, still fits in the period; the estimate never
\* decreases.
C5_LoopTerminates ==
    [][pc = "while" =>
          \/ /\ pc' = "for"
             /\ log'[Len(log')].exit \in {"not_schedulable", "converged"}
          \/ /\ pc' = "while"
             /\ wt' > wt
             /\ wt' + messages[i].trans_time <= messages[i].period]_vars

\* the loop has gone round at least twice and the estimate has grown
C5_Witness == pc = "while" /\ wt > block + 1 /\ Len(messages) = MaxMsgs

MaxIncrease == 2

\* C6: raising only the transmission time of a higher-priority message h
\* never lowers the result for a lower-priority message l: a schedulable l
\* that stays schedulable gets a response time at least as large, and an
\* l that was not schedulable stays not schedulable.
C6_Monotone ==
    pc = "loaded" =>
        \A h, l \in DOMAIN messages : \A d \in 1..MaxIncrease :
            messages[h].priority < messages[l].priority =>
                LET raised == [messages EXCEPT ![h].trans_time = @ + d]
                    before == compute_single_wcrt(messages, tau, l)
                    after  == compute_single_wcrt(raised, tau, l)
                IN /\ (before # -1 /\ after # -1) => after >= before
                   /\ before = -1 => after = -1

\* some raise strictly increases a response time, some raise turns a
\* schedulable message into one that is not
C6_Witness ==
    /\ pc = "loaded"
    /\ \E h, l \in DOMAIN messages : \E d \in 1..MaxIncrease :
          LET raised == [messages EXCEPT ![h].trans_time = @ + d]
              before == compute_single_wcrt(messages, tau, l)
              after  == compute_single_wcrt(raised, tau, l)
          IN /\ messages[h].priority < messages[l].priority
             /\ before # -1 /\ after # -1 /\ after > before
    /\ \E h, l \in DOMAIN messages : \E d \in 1..MaxIncrease :
          LET raised == [messages EXCEPT ![h].trans_time = @ + d]
              before == compute_single_wcrt(messages, tau, l)
              after  == compute_single_wcrt(raised, tau, l)
          IN /\ messages[h].priority < messages[l].priority
             /\ before # -1 /\ after = -1

SchedulableCalls == {k \in DOMAIN log : log[k].exit = "converged"}

\* C7: get_cost returns (cost, all_schedulable) with cost the sum of the
\* response times of the messages analysed schedulable plus penalty times
\* the number analysed not schedulable, and all_schedulable true exactly
\* when every message was analysed schedulable.
C7_Cost ==
    pc = "done" =>
        /\ result[1] =
              SumOver([k \in DOMAIN log |->
                          log[k].waited + messages[k].trans_time],
                      SchedulableCalls)
              + penalty * Cardinality(DOMAIN log \ SchedulableCalls)
        /\ result[2] <=> (SchedulableCalls = DOMAIN log)
        /\ DOMAIN log = DOMAIN messages

C7_Witness ==
    /\ pc = "done" /\ penalty > 0
    /\ SchedulableCalls # {} /\ SchedulableCalls # DOMAIN log

\* C9: a waiting time returned on convergence is at least the analysed
\* message's own transmission time, hence never the sentinel 0, and
\* compute_single_wcrt returns -1 exactly when the loop took the
\* not-schedulable return.
C9_Sentinel ==
    \A k \in DOMAIN log :
        /\ log[k].exit = "converged" =>
              log[k].waited >= messages[k].trans_time /\ log[k].waited > 0
        /\ log[k].rt = -1 <=> log[k].exit = "not_schedulable"

C9_Witness ==
    /\ \E k \in DOMAIN log : log[k].exit = "converged" /\ log[k].rt > 0
    /\ \E k \in DOMAIN log : log[k].exit = "not_schedulable" /\ log[k].rt = -1

---------------------------------------------------------------------------
(* simulated_annealing *)

constant == 100000

SA_penalty == 150

\* the values random.uniform(0, 1) is drawn from: prob / 4
Draws == {0, 1, 2, 3}

\* the temperatures simulated_annealing is called with
TStarts == {1, 2, 4, 8}
TEnds == {1, 2}

\* T *= cooling, with cooling = 1/2: exact on the even temperatures the loop
\* runs at
Cool(t) == t \div 2

\* ceiling of 4 * exp(-diff / T) for diff > 0, T > 0: 4 up to ln(4/3),
\* 3 up to ln 2, 2 up to ln 4, then 1 (exp never reaches 0 on the costs of
\* the model)
Exp4(diff, t) ==
    IF diff * 1000000 < 287682 * t THEN 4
    ELSE IF diff * 1000000 < 693147 * t THEN 3
    ELSE IF diff * 1000000 < 1386294 * t THEN 2
    ELSE 1

\* u / 4 < exp(-diff / T)
Metropolis(u, diff, t) == u < Exp4(diff, t)

\* constant * prob < prob * exp(-diff / T), with prob = u / 4
Accept(u, diff, t) == constant * 4 * u < u * Exp4(diff, t)

swap_list_lost(seq, a, b) == [seq EXCEPT ![a] = seq[b]]

swap_list(seq, a, b) == [seq EXCEPT ![a] = seq[b], ![b] = seq[a]]

LoopGuardInclusive(t, t_end) == t >= t_end

\* while T > T_end
LoopGuard(t, t_end) == t > t_end

NewBestFeasibleOnly(feasible, cost_candidate, cost_best, cand, best) ==
    IF feasible THEN cand ELSE best

\* if feasible and cost_candidate < cost_best: best_seq = candidate.copy()
NewBest(feasible, cost_candidate, cost_best, cand, best) ==
    IF feasible /\ cost_candidate < cost_best THEN cand ELSE best

\* if diff <= 0: current_seq = candidate.copy(); else: the draw decides
NewCurrent(diff, u, t, cand, cur) ==
    IF diff <= 0 THEN cand
    ELSE IF Accept(u, diff, t) THEN cand ELSE cur

\* message sets of input files written in priority order
SortedMessageSets ==
    {ms \in ValidMessageSets : \A k \in DOMAIN ms : ms[k].priority = k}

InitSA ==
    /\ messages \in SortedMessageSets
    /\ tau \in Taus
    /\ pc = "anneal"
    /\ pending = 0
    /\ result = <<>>
    /\ NoCost
    /\ T_start \in TStarts
    /\ T = T_start
    /\ T_end \in TEnds
    /\ initial_seq = PrioritiesOf(messages)
    /\ current_seq = PrioritiesOf(messages)
    /\ best_seq = PrioritiesOf(messages)
    /\ candidate = <<>>
    /\ prob = 0
    /\ iterations = 0

\* one execution of the body of the while loop; a, b are the positions
\* random.sample picks, u the value random.uniform draws when the candidate
\* costs more (prob stays as it is otherwise), cand the
\* candidate and cost_current, cost_cand, cost_best the three pairs get_cost
\* returns
AnnealBody(a, b, u, cand, cost_current, cost_cand, cost_best) ==
    /\ candidate' = cand
    /\ best_seq' = NewBest(cost_cand[2], cost_cand[1], cost_best[1],
                           cand, best_seq)
    /\ current_seq' = NewCurrent(cost_cand[1] - cost_current[1], u, T,
                                 cand, current_seq)
    /\ prob' = u
    /\ messages' = update_priorities(messages, best_seq)
    /\ T' = Cool(T)
    /\ iterations' = iterations + 1
    /\ UNCHANGED <<tau, pc, pending, result, T_start, T_end, initial_seq>>
    /\ UNCHANGED costVars

Anneal(a, b, cost_current, cost_best) ==
    /\ a # b
    /\ \E cand \in {swap_list(current_seq, a, b)} :
       \E cost_cand \in {get_cost(messages, tau, cand, SA_penalty)} :
          IF cost_cand[1] - cost_current[1] <= 0
          THEN AnnealBody(a, b, prob, cand, cost_current, cost_cand,
                          cost_best)
          ELSE \E u \in Draws :
                  AnnealBody(a, b, u, cand, cost_current, cost_cand,
                             cost_best)

\* random.sample(range(n), 2) with n < 2 raises ValueError
AnnealSampleError ==
    /\ pc = "anneal"
    /\ LoopGuard(T, T_end)
    /\ Len(messages) < 2
    /\ pc' = "ValueError"
    /\ UNCHANGED <<messages, tau, pending, result>>
    /\ UNCHANGED costVars
    /\ UNCHANGED saVars

\* the loop is over: get_cost(seq=best_seq), return best_seq
AnnealReturn ==
    /\ pc = "anneal"
    /\ ~LoopGuard(T, T_end)
    /\ messages' = update_priorities(messages, best_seq)
    /\ result' = best_seq
    /\ pc' = "returned"
    /\ UNCHANGED <<tau, pending>>
    /\ UNCHANGED costVars
    /\ UNCHANGED saVars

NextSA ==
    \/ /\ pc = "anneal"
       /\ LoopGuard(T, T_end)
       /\ \E cost_current \in
                {get_cost(messages, tau, current_seq, SA_penalty)} :
          \E cost_best \in {get_cost(messages, tau, best_seq, SA_penalty)} :
          \E a, b \in DOMAIN messages :
             Anneal(a, b, cost_current, cost_best)
    \/ AnnealSampleError
    \/ AnnealReturn

SpecSA == InitSA /\ [][NextSA]_vars

---------------------------------------------------------------------------
(* load_data: Message(parts) and add_message for each descriptor line *)

\* the descriptor lines an input file may hold, well-formed or not
LoadPriorities == {1, 2}
LoadTransTimes == {0, 2}
LoadPeriods == {0, 5}
Descriptors == LoadPriorities \X LoadTransTimes \X LoadPeriods

add_message(msgs, msg) == Append(msgs, msg)

InitLoad ==
    /\ messages = <<>>
    /\ tau \in Taus
    /\ pc = "loading"
    /\ pending \in 1..MaxMsgs
    /\ result = <<>>
    /\ NoCost
    /\ NoSA

\* one pass of the for loop of load_data
LoadLine(parts) ==
    /\ pc = "loading"
    /\ pending > 0
    /\ messages' = add_message(messages, Message(parts))
    /\ pending' = pending - 1
    /\ UNCHANGED <<tau, pc, result>>
    /\ UNCHANGED costVars
    /\ UNCHANGED saVars

\* load_data returns (controller, num)
LoadReturn ==
    /\ pc = "loading"
    /\ pending = 0
    /\ pc' = "loaded"
    /\ UNCHANGED <<messages, tau, pending, result>>
    /\ UNCHANGED costVars
    /\ UNCHANGED saVars

\* main: load_data, then get_cost()
NextLoad ==
    \/ \E parts \in Descriptors : LoadLine(parts)
    \/ LoadReturn
    \/ GetCostCall(0)
    \/ WaitEnter
    \/ WaitNotSchedulable
    \/ WaitConverged
    \/ WaitIterate
    \/ WaitZeroDivision
    \/ GetCostReturn

SpecLoad == InitLoad /\ [][NextLoad]_vars

---------------------------------------------------------------------------
(* Claims about load_data *)

WellFormed(msgs) ==
    /\ \A k \in DOMAIN msgs : msgs[k].period > 0 /\ msgs[k].trans_time > 0
    /\ \A a, b \in DOMAIN msgs : msgs[a].priority = msgs[b].priority => a = b

\* C3 as stated: a descriptor with period <= 0, transmission time <= 0 or
\* the priority of a message already in the set is rejected when it is
\* constructed or added, so the response-time analysis never runs on a
\* message set that holds one.
C3_MalformedRejected ==
    pc \in {"loaded", "for", "while", "done", "ZeroDivisionError"} =>
        WellFormed(messages)

---------------------------------------------------------------------------
(* Claims about simulated_annealing *)

Cost(seq) == get_cost(messages, tau, seq, SA_penalty)

\* C1 as stated: a candidate that costs strictly more than the current
\* assignment becomes the current assignment exactly when the draw is
\* below exp(-diff / T).
C1_Metropolis ==
    [][(pc = "anneal" /\ iterations' = iterations + 1
          /\ Cost(candidate')[1] > Cost(current_seq)[1]) =>
          ((current_seq' = candidate') <=>
              Metropolis(prob',
                         Cost(candidate')[1] - Cost(current_seq)[1], T))]_vars

\* C4: best_seq is replaced only by the fully schedulable candidate of the
\* iteration, at a strictly lower cost (with the loop's penalty) than the
\* best_seq it replaces; otherwise best_seq and the data its cost depends
\* on stay as they are, so the cost of best_seq never increases.
C4_BestNeverWorse ==
    [][pc = "anneal" =>
          \/ /\ best_seq' = best_seq
             /\ tau' = tau
             /\ \A k \in DOMAIN messages :
                   /\ messages'[k].trans_time = messages[k].trans_time
                   /\ messages'[k].period = messages[k].period
          \/ /\ best_seq' = candidate'
             /\ Cost(best_seq')[2]
             /\ Cost(best_seq')[1] < Cost(best_seq)[1]]_vars

\* best_seq has been replaced, and a later iteration has left it alone
C4_Witness ==
    /\ pc = "anneal" /\ iterations >= 2
    /\ best_seq # initial_seq /\ best_seq # candidate

\* C8: called with T_start = T_end, simulated_annealing runs the loop body
\* zero times and returns the initial assignment.
C8_ZeroIterations ==
    T_start = T_end =>
        /\ iterations = 0
        /\ candidate = <<>>
        /\ T = T_start
        /\ pc # "ValueError"
        /\ pc = "returned" =>
              result = initial_seq /\ PrioritiesOf(messages) = initial_seq

C8_Witness ==
    pc = "returned" /\ T_start = T_end /\ Len(messages) = MaxMsgs

Count(seq, v) == Cardinality({k \in DOMAIN seq : seq[k] = v})

IsPermutationOf(s, t) ==
    /\ Len(s) = Len(t)
    /\ \A k \in DOMAIN s : Count(s, s[k]) = Count(t, s[k])
    /\ \A k \in DOMAIN t : Count(s, t[k]) = Count(t, t[k])

Distinct(seq) == \A a, b \in DOMAIN seq : seq[a] = seq[b] => a = b

\* C10: current_seq, the candidate and best_seq are always permutations of
\* the initial priority sequence; with pairwise distinct initial
\* priorities, so are the priorities get_cost leaves on the messages and
\* the returned sequence.
C10_Permutations ==
    /\ IsPermutationOf(current_seq, initial_seq)
    /\ IsPermutationOf(best_seq, initial_seq)
    /\ iterations > 0 => IsPermutationOf(candidate, initial_seq)
    /\ Distinct(initial_seq) =>
          /\ Distinct(current_seq) /\ Distinct(best_seq)
          /\ Distinct(candidate)
          /\ Distinct(PrioritiesOf(messages))
          /\ pc = "returned" => Distinct(result) /\ result = best_seq

C10_Witness ==
    /\ pc = "returned" /\ iterations >= 2
    /\ result # initial_seq /\ candidate # result /\ current_seq # result

=============================================================================
